---- MODULE Spec2Model ----
(***************************************************************************)
(* Model of pc, a postfix calculator (src/src/main.rs).                    *)
(*                                                                         *)
(* The program keeps one stack of values (f64 numbers and matrices), reads *)
(* whitespace separated tokens and either pushes a literal or runs the     *)
(* handler registered for the token.  Every failure is a Rust panic.       *)
(*                                                                         *)
(* Numbers.  An f64 is modelled in sign/magnitude form, as IEEE-754 keeps  *)
(* it: a finite dyadic rational (neg, n, d) = (-1)^neg * n / d with d a    *)
(* power of two, an infinity, NaN, "approx": an f64 of which the model only *)
(* keeps n, the usize it casts to (a rounded quotient, pi, a sine), or     *)
(* "untracked": an f64 whose value the model does not determine.           *)
(*                                                                         *)
(* usize.  A usize is modelled by the integer of least magnitude that is   *)
(* congruent to it modulo 2^64: 0, 1, 2, ... stand for themselves and -k   *)
(* stands for 2^64 - k.  Integer multiplication of representatives is then *)
(* exactly the wrapping multiplication of the machine.                     *)
(***************************************************************************)
EXTENDS Integers, Sequences, FiniteSets, TLC

\* ------------------------------------------------------------------ bounds
\* Number of input lines an interactive session reads before end of input.
MaxLines == 2
\* Magnitudes above MaxExact (numerator or denominator) are not tracked.
MaxExact == 64
\* Largest truncation explored for an untracked number used as a size.
MaxTrunc == 2
\* Width used to compute the bitwise complement of a print index.
IsizeBits == 16

\* ------------------------------------------------------------- f64 values
Fin(neg, n, d) == [cls |-> "fin", neg |-> neg, n |-> n, d |-> d]
Inf(neg) == [cls |-> "inf", neg |-> neg, n |-> 0, d |-> 1]
NaN == [cls |-> "nan", neg |-> FALSE, n |-> 0, d |-> 1]
Approx(n) == [cls |-> "approx", neg |-> FALSE, n |-> n, d |-> 1]
Untracked == [cls |-> "untracked", neg |-> FALSE, n |-> 0, d |-> 1]

Zero == Fin(FALSE, 0, 1)
One == Fin(FALSE, 1, 1)
Int2F(i) == IF i < 0 THEN Fin(TRUE, 0 - i, 1) ELSE Fin(FALSE, i, 1)

IsFin(x) == x.cls = "fin"
IsInf(x) == x.cls = "inf"
IsNaN(x) == x.cls = "nan"
IsUntracked(x) == x.cls \in {"approx", "untracked"}
IsZero(x) == IsFin(x) /\ x.n = 0
IsInteger(x) == IsFin(x) /\ x.d = 1
Xor(a, b) == a # b

RECURSIVE Gcd(_, _)
Gcd(a, b) == IF b = 0 THEN a ELSE Gcd(b, a % b)

IsPow2(k) == k \in {1, 2, 4, 8, 16, 32, 64, 128, 256, 512, 1024, 2048, 4096}

\* The f64 nearest to (-1)^neg * n / d: exact when the reduced fraction is
\* dyadic and within the tracked range; otherwise only its cast to usize is
\* kept (rounding a quotient of small integers never reaches the next
\* integer).
Round(neg, n, d) ==
    LET g == Gcd(n, d)
        rn == n \div g
        rd == d \div g
    IN  IF n = 0 THEN Fin(neg, 0, 1)
        ELSE IF IsPow2(rd) /\ rn <= MaxExact /\ rd <= MaxExact THEN Fin(neg, rn, rd)
        ELSE Approx(IF neg THEN 0 ELSE rn \div rd)

Signed(x) == IF x.neg THEN 0 - x.n ELSE x.n
Abs(i) == IF i < 0 THEN 0 - i ELSE i
Max2(a, b) == IF a >= b THEN a ELSE b

FNeg(x) == IF IsNaN(x) \/ IsUntracked(x) THEN x ELSE [x EXCEPT !.neg = ~x.neg]

\* lhs + rhs
FAdd(a, b) ==
    IF IsNaN(a) \/ IsNaN(b) THEN NaN
    ELSE IF IsUntracked(a) \/ IsUntracked(b) THEN Untracked
    ELSE IF IsInf(a) /\ IsInf(b) THEN (IF a.neg = b.neg THEN a ELSE NaN)
    ELSE IF IsInf(a) THEN a
    ELSE IF IsInf(b) THEN b
    ELSE LET D == Max2(a.d, b.d)
             s == Signed(a) * (D \div a.d) + Signed(b) * (D \div b.d)
         IN  IF s = 0 THEN Fin(a.neg /\ b.neg, 0, 1)
             ELSE Round(s < 0, Abs(s), D)

\* lhs - rhs
FSub(a, b) == FAdd(a, FNeg(b))

\* lhs * rhs
FMul(a, b) ==
    IF IsNaN(a) \/ IsNaN(b) THEN NaN
    ELSE IF IsUntracked(a) \/ IsUntracked(b) THEN Untracked
    ELSE IF IsInf(a) \/ IsInf(b)
         THEN (IF IsZero(a) \/ IsZero(b) THEN NaN ELSE Inf(Xor(a.neg, b.neg)))
    ELSE Round(Xor(a.neg, b.neg), a.n * b.n, a.d * b.d)

\* lhs / rhs
FDiv(a, b) ==
    IF IsNaN(a) \/ IsNaN(b) THEN NaN
    ELSE IF IsUntracked(a) \/ IsUntracked(b) THEN Untracked
    ELSE IF IsInf(a) THEN (IF IsInf(b) THEN NaN ELSE Inf(Xor(a.neg, b.neg)))
    ELSE IF IsInf(b) THEN Fin(Xor(a.neg, b.neg), 0, 1)
    ELSE IF b.n = 0 THEN (IF a.n = 0 THEN NaN ELSE Inf(Xor(a.neg, b.neg)))
    ELSE Round(Xor(a.neg, b.neg), a.n * b.d, a.d * b.n)

\* x multiplied by itself k times (k >= 0), by repeated f64 multiplication.
RECURSIVE FPowNat(_, _)
FPowNat(x, k) == IF k = 0 THEN One ELSE FMul(x, FPowNat(x, k - 1))

\* lhs.powf(rhs)
FPow(a, b) ==
    IF IsZero(b) THEN One
    ELSE IF a = One THEN One
    ELSE IF IsNaN(a) \/ IsNaN(b) THEN NaN
    ELSE IF IsUntracked(a) \/ IsUntracked(b) THEN Untracked
    ELSE IF IsInteger(b) /\ ~b.neg THEN FPowNat(a, b.n)
    ELSE IF IsInteger(b) /\ b.neg THEN FDiv(One, FPowNat(a, b.n))
    ELSE Untracked

\* |sin x| < 1 for every tracked x other than 0
FSin(x) ==
    IF IsNaN(x) \/ IsInf(x) THEN NaN
    ELSE IF IsZero(x) THEN x
    ELSE IF IsFin(x) THEN Approx(0)
    ELSE Untracked

\* |cos x| < 1 for every tracked x other than 0
FCos(x) ==
    IF IsNaN(x) \/ IsInf(x) THEN NaN
    ELSE IF IsZero(x) THEN One
    ELSE IF IsFin(x) THEN Approx(0)
    ELSE Untracked

FTan(x) ==
    IF IsNaN(x) \/ IsInf(x) THEN NaN
    ELSE IF IsZero(x) THEN x
    ELSE Untracked

FExp(x) ==
    IF IsNaN(x) THEN NaN
    ELSE IF IsInf(x) THEN (IF x.neg THEN Zero ELSE x)
    ELSE IF IsZero(x) THEN One
    ELSE Untracked

FExp2(x) ==
    IF IsNaN(x) THEN NaN
    ELSE IF IsInf(x) THEN (IF x.neg THEN Zero ELSE x)
    ELSE IF IsUntracked(x) THEN Untracked
    ELSE IF IsInteger(x) THEN FPow(Int2F(2), x)
    ELSE Untracked

\* |x| > 1 for a finite or infinite x
AboveOne(x) == IsInf(x) \/ (IsFin(x) /\ x.n > x.d)

FAsin(x) ==
    IF IsNaN(x) THEN NaN
    ELSE IF IsUntracked(x) THEN Untracked
    ELSE IF AboveOne(x) THEN NaN
    ELSE IF IsZero(x) THEN x
    ELSE Untracked

FAcos(x) ==
    IF IsNaN(x) THEN NaN
    ELSE IF IsUntracked(x) THEN Untracked
    ELSE IF AboveOne(x) THEN NaN
    ELSE IF x = One THEN Zero
    ELSE Untracked

FAtan(x) ==
    IF IsNaN(x) THEN NaN
    ELSE IF IsZero(x) THEN x
    ELSE Untracked

\* lhs.atan2(rhs): lhs is the ordinate, rhs the abscissa
FAtan2(y, x) ==
    IF IsNaN(y) \/ IsNaN(x) THEN NaN
    ELSE IF IsUntracked(y) \/ IsUntracked(x) THEN Untracked
    ELSE IF IsZero(y) /\ ~x.neg THEN y
    ELSE IF IsFin(y) /\ IsInf(x) /\ ~x.neg THEN Fin(y.neg, 0, 1)
    ELSE Untracked

\* std::f64::consts::PI = 3.14159...
PI == Approx(3)

\* ----------------------------------------------------------------- usize
\* usize::MAX = 2^64 - 1, as its representative modulo 2^64.
UsizeMax == 0 - 1

\* The values `x as usize` can take: the cast truncates toward zero,
\* saturates at both ends and sends NaN to 0.  The truncation of an untracked
\* number can be any size; the sizes 0 .. MaxTrunc and usize::MAX are explored.
AsUsize(x) ==
    IF IsNaN(x) THEN {0}
    ELSE IF x.cls = "untracked" THEN (0 .. MaxTrunc) \cup {UsizeMax}
    ELSE IF x.neg THEN {0}
    ELSE IF IsInf(x) THEN {UsizeMax}
    ELSE {x.n \div x.d}

\* row*col exceeds usize::MAX (the product panics when overflow checks are on)
MulOverflows(row, col) ==
    \/ row < 0 /\ col < 0
    \/ row < 0 /\ col >= 2
    \/ col < 0 /\ row >= 2

\* row*col modulo 2^64
WrappingMul(row, col) == row * col

\* Vec::<f64>::with_capacity(n) panics when n * 8 bytes exceed isize::MAX
CapacityOverflows(n) == n < 0

\* ---------------------------------------------------------------- values
Number(num) == [kind |-> "Number", num |-> num]
MatrixValue(mat) == [kind |-> "Matrix", mat |-> mat]

\* Matrix::from
Matrix_from(row, col, data) == [row |-> row, col |-> col, data |-> data]

is_number(v) == v.kind = "Number"
is_matrix(v) == v.kind = "Matrix"

Min2(a, b) == IF a <= b THEN a ELSE b

\* Mutation: the elements of rhs are taken from its end.
Zip_add_misaligned(ld, rd) ==
    [i \in 1 .. Min2(Len(ld), Len(rd)) |-> FAdd(ld[i], rd[Len(rd) + 1 - i])]

\* std::iter::zip(lhs, rhs).map(f): as long as the shorter operand
Zip_add(ld, rd) == [i \in 1 .. Min2(Len(ld), Len(rd)) |-> FAdd(ld[i], rd[i])]
Zip_sub(ld, rd) == [i \in 1 .. Min2(Len(ld), Len(rd)) |-> FSub(ld[i], rd[i])]

\* Mutation: the sum carries the dimensions of the right operand.
Matrix_add_as_rhs(lhs, rhs) == Matrix_from(rhs.row, rhs.col, Zip_add(lhs.data, rhs.data))

\* impl Add<Matrix> for Matrix
Matrix_add(lhs, rhs) == Matrix_from(lhs.row, lhs.col, Zip_add(lhs.data, rhs.data))

\* impl Sub<Matrix> for Matrix
Matrix_sub(lhs, rhs) == Matrix_from(lhs.row, lhs.col, Zip_sub(lhs.data, rhs.data))

\* ---------------------------------------------------------------- panics
NoPanic == [kind |-> "none", ident |-> "", vals |-> <<>>]
StackUnderflow == [kind |-> "StackUnderflow", ident |-> "", vals |-> <<>>]
UnsupportedOperation(vals) == [kind |-> "UnsupportedOperation", ident |-> "", vals |-> vals]
TypeError(msg) == [kind |-> "TypeError", ident |-> msg, vals |-> <<>>]
UndefinedOperator(identifier) == [kind |-> "UndefinedOperator", ident |-> identifier, vals |-> <<>>]
ArithmeticOverflow == [kind |-> "ArithmeticOverflow", ident |-> "", vals |-> <<>>]
CapacityOverflow == [kind |-> "CapacityOverflow", ident |-> "", vals |-> <<>>]
IndexOutOfBounds == [kind |-> "IndexOutOfBounds", ident |-> "", vals |-> <<>>]

\* The result of running a handler: the stack it leaves, the panic, if any,
\* and what it wrote to standard output.
Ok(st) == [stack |-> st, panic |-> NoPanic, out |-> <<>>]
Panicked(st, p) == [stack |-> st, panic |-> p, out |-> <<>>]

\* Vec::pop / Vec::push on the tail of the sequence
Top(st) == st[Len(st)]
Pop(st) == SubSeq(st, 1, Len(st) - 1)
Push(st, v) == Append(st, v)

\* Mutation: mat.reverse() is left out.
Reverse_skipped(s) == s

RECURSIVE Reverse(_)
Reverse(s) == IF s = <<>> THEN <<>> ELSE Append(Reverse(Tail(s)), Head(s))

\* -------------------------------------------------------------- handlers
\* Every handler maps the stack to the set of its possible results (one
\* result, except where a size is the truncation of an untracked number).

exec_pi(stack) == {Ok(Push(stack, Number(PI)))}

\* Mutation: the loop stops quietly when the stack runs out.
RECURSIVE PopElements_lenient(_, _, _)
PopElements_lenient(st, k, mat) ==
    IF k = 0 \/ st = <<>> THEN [stack |-> st, mat |-> mat, panic |-> NoPanic]
    ELSE IF is_matrix(Top(st))
         THEN [stack |-> Pop(st), mat |-> mat,
               panic |-> TypeError("Matrix elements must be numbers")]
    ELSE PopElements_lenient(Pop(st), k - 1, Append(mat, Top(st).num))

\* The loop of exec_matrix: pop k values, each of which must be a number.
RECURSIVE PopElements(_, _, _)
PopElements(st, k, mat) ==
    IF k = 0 THEN [stack |-> st, mat |-> mat, panic |-> NoPanic]
    ELSE IF st = <<>> THEN [stack |-> st, mat |-> mat, panic |-> StackUnderflow]
    ELSE IF is_matrix(Top(st))
         THEN [stack |-> Pop(st), mat |-> mat,
               panic |-> TypeError("Matrix elements must be numbers")]
    ELSE PopElements(Pop(st), k - 1, Append(mat, Top(st).num))

\* exec_matrix from the multiplication row*col on, for the sizes row and col.
BuildMatrix(st, row, col, overflow_checks) ==
    IF overflow_checks /\ MulOverflows(row, col) THEN Panicked(st, ArithmeticOverflow)
    ELSE LET n == WrappingMul(row, col)
             r == PopElements(st, n, <<>>)
         IN  IF CapacityOverflows(n) THEN Panicked(st, CapacityOverflow)
             ELSE IF r.panic # NoPanic THEN Panicked(r.stack, r.panic)
             ELSE Ok(Push(r.stack, MatrixValue(Matrix_from(row, col, Reverse(r.mat)))))

\* Mutation: a Matrix given as a size counts as the size 0.
exec_matrix_lenient(stack, overflow_checks) ==
    IF Len(stack) = 0 THEN {Panicked(stack, StackUnderflow)}
    ELSE IF Len(stack) = 1 THEN {Panicked(Pop(stack), StackUnderflow)}
    ELSE LET col_value == Top(stack)
             row_value == Top(Pop(stack))
             rest == Pop(Pop(stack))
         IN  {BuildMatrix(rest, row, col, overflow_checks) :
                 row \in IF is_matrix(row_value) THEN {0} ELSE AsUsize(row_value.num),
                 col \in IF is_matrix(col_value) THEN {0} ELSE AsUsize(col_value.num)}

exec_matrix(stack, overflow_checks) ==
    IF Len(stack) = 0 THEN {Panicked(stack, StackUnderflow)}
    ELSE IF Len(stack) = 1 THEN {Panicked(Pop(stack), StackUnderflow)}
    ELSE LET col_value == Top(stack)
             row_value == Top(Pop(stack))
             rest == Pop(Pop(stack))
         IN  IF is_matrix(row_value) \/ is_matrix(col_value)
             THEN {Panicked(rest, TypeError("Matrix size must be numbers"))}
             ELSE {BuildMatrix(rest, row, col, overflow_checks) :
                      row \in AsUsize(row_value.num), col \in AsUsize(col_value.num)}

\* Mutation: a missing operand counts as 0 instead of failing the pop.
exec_plus_default(stack) ==
    IF Len(stack) = 0 THEN {Ok(Push(stack, Number(Zero)))}
    ELSE IF Len(stack) = 1 THEN {Ok(stack)}
    ELSE LET val2 == Top(stack)
             val1 == Top(Pop(stack))
             rest == Pop(Pop(stack))
         IN  IF is_number(val1) /\ is_number(val2)
             THEN {Ok(Push(rest, Number(FAdd(val1.num, val2.num))))}
             ELSE IF is_matrix(val1) /\ is_matrix(val2)
             THEN {Ok(Push(rest, MatrixValue(Matrix_add(val1.mat, val2.mat))))}
             ELSE {Panicked(rest, UnsupportedOperation(<<val1, val2>>))}

exec_plus(stack) ==
    IF Len(stack) = 0 THEN {Panicked(stack, StackUnderflow)}
    ELSE IF Len(stack) = 1 THEN {Panicked(Pop(stack), StackUnderflow)}
    ELSE LET val2 == Top(stack)
             val1 == Top(Pop(stack))
             rest == Pop(Pop(stack))
         IN  IF is_number(val1) /\ is_number(val2)
             THEN {Ok(Push(rest, Number(FAdd(val1.num, val2.num))))}
             ELSE IF is_matrix(val1) /\ is_matrix(val2)
             THEN {Ok(Push(rest, MatrixValue(Matrix_add(val1.mat, val2.mat))))}
             ELSE {Panicked(rest, UnsupportedOperation(<<val1, val2>>))}

\* Mutation: the operands are taken in the opposite order.
exec_sub_swapped(stack) ==
    IF Len(stack) = 0 THEN {Panicked(stack, StackUnderflow)}
    ELSE IF Len(stack) = 1 THEN {Panicked(Pop(stack), StackUnderflow)}
    ELSE LET val2 == Top(stack)
             val1 == Top(Pop(stack))
             rest == Pop(Pop(stack))
         IN  IF is_number(val1) /\ is_number(val2)
             THEN {Ok(Push(rest, Number(FSub(val2.num, val1.num))))}
             ELSE IF is_matrix(val1) /\ is_matrix(val2)
             THEN {Ok(Push(rest, MatrixValue(Matrix_sub(val2.mat, val1.mat))))}
             ELSE {Panicked(rest, UnsupportedOperation(<<val1, val2>>))}

exec_sub(stack) ==
    IF Len(stack) = 0 THEN {Panicked(stack, StackUnderflow)}
    ELSE IF Len(stack) = 1 THEN {Panicked(Pop(stack), StackUnderflow)}
    ELSE LET val2 == Top(stack)
             val1 == Top(Pop(stack))
             rest == Pop(Pop(stack))
         IN  IF is_number(val1) /\ is_number(val2)
             THEN {Ok(Push(rest, Number(FSub(val1.num, val2.num))))}
             ELSE IF is_matrix(val1) /\ is_matrix(val2)
             THEN {Ok(Push(rest, MatrixValue(Matrix_sub(val1.mat, val2.mat))))}
             ELSE {Panicked(rest, UnsupportedOperation(<<val1, val2>>))}

\* Mutation: operands of the wrong variant are dropped without a panic.
exec_mul_lenient(stack) ==
    IF Len(stack) = 0 THEN {Panicked(stack, StackUnderflow)}
    ELSE IF Len(stack) = 1 THEN {Panicked(Pop(stack), StackUnderflow)}
    ELSE LET val2 == Top(stack)
             val1 == Top(Pop(stack))
             rest == Pop(Pop(stack))
         IN  IF is_number(val1) /\ is_number(val2)
             THEN {Ok(Push(rest, Number(FMul(val1.num, val2.num))))}
             ELSE {Ok(rest)}

exec_mul(stack) ==
    IF Len(stack) = 0 THEN {Panicked(stack, StackUnderflow)}
    ELSE IF Len(stack) = 1 THEN {Panicked(Pop(stack), StackUnderflow)}
    ELSE LET val2 == Top(stack)
             val1 == Top(Pop(stack))
             rest == Pop(Pop(stack))
         IN  IF is_number(val1) /\ is_number(val2)
             THEN {Ok(Push(rest, Number(FMul(val1.num, val2.num))))}
             ELSE {Panicked(rest, UnsupportedOperation(<<val1, val2>>))}

exec_div(stack) ==
    IF Len(stack) = 0 THEN {Panicked(stack, StackUnderflow)}
    ELSE IF Len(stack) = 1 THEN {Panicked(Pop(stack), StackUnderflow)}
    ELSE LET val2 == Top(stack)
             val1 == Top(Pop(stack))
             rest == Pop(Pop(stack))
         IN  IF is_number(val1) /\ is_number(val2)
             THEN {Ok(Push(rest, Number(FDiv(val1.num, val2.num))))}
             ELSE {Panicked(rest, UnsupportedOperation(<<val1, val2>>))}

exec_pow(stack) ==
    IF Len(stack) = 0 THEN {Panicked(stack, StackUnderflow)}
    ELSE IF Len(stack) = 1 THEN {Panicked(Pop(stack), StackUnderflow)}
    ELSE LET val2 == Top(stack)
             val1 == Top(Pop(stack))
             rest == Pop(Pop(stack))
         IN  IF is_number(val1) /\ is_number(val2)
             THEN {Ok(Push(rest, Number(FPow(val1.num, val2.num))))}
             ELSE {Panicked(rest, UnsupportedOperation(<<val1, val2>>))}

exec_atan2(stack) ==
    IF Len(stack) = 0 THEN {Panicked(stack, StackUnderflow)}
    ELSE IF Len(stack) = 1 THEN {Panicked(Pop(stack), StackUnderflow)}
    ELSE LET val2 == Top(stack)
             val1 == Top(Pop(stack))
             rest == Pop(Pop(stack))
         IN  IF is_number(val1) /\ is_number(val2)
             THEN {Ok(Push(rest, Number(FAtan2(val1.num, val2.num))))}
             ELSE {Panicked(rest, UnsupportedOperation(<<val1, val2>>))}

\* Mutation: the variant is tested before the operand is popped.
exec_sin_restoring(stack) ==
    IF Len(stack) = 0 THEN {Panicked(stack, StackUnderflow)}
    ELSE LET val == Top(stack)
         IN  IF is_number(val) THEN {Ok(Push(Pop(stack), Number(FSin(val.num))))}
             ELSE {Panicked(stack, UnsupportedOperation(<<val>>))}

exec_sin(stack) ==
    IF Len(stack) = 0 THEN {Panicked(stack, StackUnderflow)}
    ELSE LET val == Top(stack)
         IN  IF is_number(val) THEN {Ok(Push(Pop(stack), Number(FSin(val.num))))}
             ELSE {Panicked(Pop(stack), UnsupportedOperation(<<val>>))}

exec_cos(stack) ==
    IF Len(stack) = 0 THEN {Panicked(stack, StackUnderflow)}
    ELSE LET val == Top(stack)
         IN  IF is_number(val) THEN {Ok(Push(Pop(stack), Number(FCos(val.num))))}
             ELSE {Panicked(Pop(stack), UnsupportedOperation(<<val>>))}

exec_tan(stack) ==
    IF Len(stack) = 0 THEN {Panicked(stack, StackUnderflow)}
    ELSE LET val == Top(stack)
         IN  IF is_number(val) THEN {Ok(Push(Pop(stack), Number(FTan(val.num))))}
             ELSE {Panicked(Pop(stack), UnsupportedOperation(<<val>>))}

exec_cot(stack) ==
    IF Len(stack) = 0 THEN {Panicked(stack, StackUnderflow)}
    ELSE LET val == Top(stack)
         IN  IF is_number(val)
             THEN {Ok(Push(Pop(stack), Number(FDiv(One, FTan(val.num)))))}
             ELSE {Panicked(Pop(stack), UnsupportedOperation(<<val>>))}

exec_exp(stack) ==
    IF Len(stack) = 0 THEN {Panicked(stack, StackUnderflow)}
    ELSE LET val == Top(stack)
         IN  IF is_number(val) THEN {Ok(Push(Pop(stack), Number(FExp(val.num))))}
             ELSE {Panicked(Pop(stack), UnsupportedOperation(<<val>>))}

\* Defined in the source but absent from HANDLERS.
exec_exp2(stack) ==
    IF Len(stack) = 0 THEN {Panicked(stack, StackUnderflow)}
    ELSE LET val == Top(stack)
         IN  IF is_number(val) THEN {Ok(Push(Pop(stack), Number(FExp2(val.num))))}
             ELSE {Panicked(Pop(stack), UnsupportedOperation(<<val>>))}

exec_asin(stack) ==
    IF Len(stack) = 0 THEN {Panicked(stack, StackUnderflow)}
    ELSE LET val == Top(stack)
         IN  IF is_number(val) THEN {Ok(Push(Pop(stack), Number(FAsin(val.num))))}
             ELSE {Panicked(Pop(stack), UnsupportedOperation(<<val>>))}

exec_acos(stack) ==
    IF Len(stack) = 0 THEN {Panicked(stack, StackUnderflow)}
    ELSE LET val == Top(stack)
         IN  IF is_number(val) THEN {Ok(Push(Pop(stack), Number(FAcos(val.num))))}
             ELSE {Panicked(Pop(stack), UnsupportedOperation(<<val>>))}

exec_atan(stack) ==
    IF Len(stack) = 0 THEN {Panicked(stack, StackUnderflow)}
    ELSE LET val == Top(stack)
         IN  IF is_number(val) THEN {Ok(Push(Pop(stack), Number(FAtan(val.num))))}
             ELSE {Panicked(Pop(stack), UnsupportedOperation(<<val>>))}

exec_acot(stack) ==
    IF Len(stack) = 0 THEN {Panicked(stack, StackUnderflow)}
    ELSE LET val == Top(stack)
         IN  IF is_number(val)
             THEN {Ok(Push(Pop(stack), Number(FAtan(FDiv(One, val.num)))))}
             ELSE {Panicked(Pop(stack), UnsupportedOperation(<<val>>))}

\* ---------------------------------------------------------------- printing
\* !(i as isize): the complement of every bit of i, read as a signed integer.
BitNot(i) ==
    LET u == (2 ^ IsizeBits - 1) - i
    IN  IF u >= 2 ^ (IsizeBits - 1) THEN u - 2 ^ IsizeBits ELSE u

\* Display for Matrix reads data[i*col + j] for every i < row and j < col, in
\* increasing index order; the read panics at the first index past the data.
DisplayPanics(mat) ==
    /\ mat.row # 0
    /\ mat.col # 0
    /\ (mat.row < 0 \/ mat.col < 0 \/ mat.row * mat.col > Len(mat.data))

\* The rendering of a matrix: `row` lines holding `col` cells each.
DisplayMatrix(mat) ==
    [lines |-> mat.row, width |-> mat.col,
     cells |-> SubSeq(mat.data, 1, mat.row * mat.col)]

\* Display for Value
DisplayValue(v) ==
    IF is_number(v) THEN [number |-> v.num] ELSE [matrix |-> DisplayMatrix(v.mat)]

ValuePanics(v) == is_matrix(v) /\ DisplayPanics(v.mat)

\* The entries println! writes for the first k elements from the top: the
\* index and the rendering of the element.
PrintedLines(stack, k) ==
    [i \in 1 .. k |-> [index |-> BitNot(i - 1),
                       text |-> DisplayValue(stack[Len(stack) - (i - 1)])]]

\* Elements from the top that are written before one fails to render.
RECURSIVE PrintableFromTop(_, _)
PrintableFromTop(stack, i) ==
    IF i >= Len(stack) THEN i
    ELSE IF ValuePanics(stack[Len(stack) - i]) THEN i
    ELSE PrintableFromTop(stack, i + 1)

exec_print(stack) ==
    LET k == PrintableFromTop(stack, 0)
    IN  IF k = Len(stack)
        THEN {[stack |-> stack, panic |-> NoPanic, out |-> PrintedLines(stack, k)]}
        ELSE {[stack |-> stack, panic |-> IndexOutOfBounds, out |-> PrintedLines(stack, k)]}

\* --------------------------------------------------------------- dispatch
HANDLERS ==
    {"pi", "+", "-", "*", "/", "^", "sin", "cos", "tan", "cot", "exp",
     "asin", "acos", "atan", "acot", "atan2", "p", "matrix"}

\* The function HANDLERS maps the name to, applied to the stack.
CallHandler(name, stack, overflow_checks) ==
    CASE name = "pi" -> exec_pi(stack)
      [] name = "+" -> exec_plus(stack)
      [] name = "-" -> exec_sub(stack)
      [] name = "*" -> exec_mul(stack)
      [] name = "/" -> exec_div(stack)
      [] name = "^" -> exec_pow(stack)
      [] name = "sin" -> exec_sin(stack)
      [] name = "cos" -> exec_cos(stack)
      [] name = "tan" -> exec_tan(stack)
      [] name = "cot" -> exec_cot(stack)
      [] name = "exp" -> exec_exp(stack)
      [] name = "asin" -> exec_asin(stack)
      [] name = "acos" -> exec_acos(stack)
      [] name = "atan" -> exec_atan(stack)
      [] name = "acot" -> exec_acot(stack)
      [] name = "atan2" -> exec_atan2(stack)
      [] name = "p" -> exec_print(stack)
      [] name = "matrix" -> exec_matrix(stack, overflow_checks)

\* Mutation: an unknown identifier is skipped.
exec_identifier_lenient(stack, identifier, overflow_checks) ==
    IF identifier \in HANDLERS THEN CallHandler(identifier, stack, overflow_checks)
    ELSE {Ok(stack)}

exec_identifier(stack, identifier, overflow_checks) ==
    IF identifier \in HANDLERS THEN CallHandler(identifier, stack, overflow_checks)
    ELSE {Panicked(stack, UndefinedOperator(identifier))}

\* ------------------------------------------------------------------ input
\* The words of the modelled input that str::parse::<f64> accepts, with the
\* value each parses to.
LiteralValue ==
    ("0" :> Zero) @@ ("1" :> One) @@ ("2" :> Int2F(2)) @@ ("3" :> Int2F(3)) @@
    ("4" :> Int2F(4)) @@ ("5" :> Int2F(5)) @@ ("6" :> Int2F(6)) @@
    ("7" :> Int2F(7)) @@ ("8" :> Int2F(8)) @@ ("-1" :> Int2F(0 - 1)) @@
    ("0.5" :> Fin(FALSE, 1, 2)) @@ ("inf" :> Inf(FALSE))

Literals == DOMAIN LiteralValue
Unregistered == {"foo", "exp2"}
Words == Literals \cup HANDLERS \cup Unregistered

\* tok.parse::<f64>()
ParseF64(tok) ==
    IF tok \in Literals THEN [ok |-> TRUE, number |-> LiteralValue[tok]]
    ELSE [ok |-> FALSE, number |-> NaN]

\* A line of input is a sequence of words and blanks; two words are always
\* separated by at least one blank.
Blank == " "

RECURSIVE Join(_)
Join(ws) ==
    IF Len(ws) <= 1 THEN ws ELSE <<Head(ws), Blank>> \o Join(Tail(ws))

\* expr.split_whitespace(): the words of the line, in order
split_whitespace(expr) == SelectSeq(expr, LAMBDA w : w # Blank)

\* The body of the loop of exec for one token.
EvalToken(stack, tok, overflow_checks) ==
    LET num == ParseF64(tok)
    IN  IF num.ok THEN {Ok(Push(stack, Number(num.number)))}
        ELSE exec_identifier(stack, tok, overflow_checks)

\* exec as a function: the loop over the tokens of expr, from the token after
\* `done`, to its possible results; count is the number of tokens evaluated.
RECURSIVE exec_loop(_, _, _, _)
exec_loop(stack, toks, done, overflow_checks) ==
    IF done = Len(toks) THEN {[stack |-> stack, panic |-> NoPanic, count |-> done]}
    ELSE UNION {IF o.panic # NoPanic
                THEN {[stack |-> o.stack, panic |-> o.panic, count |-> done + 1]}
                ELSE exec_loop(o.stack, toks, done + 1, overflow_checks) :
                   o \in EvalToken(stack, toks[done + 1], overflow_checks)}

exec(stack, expr, overflow_checks) ==
    exec_loop(stack, split_whitespace(expr), 0, overflow_checks)

\* Lines the terminal (or the --string argument) can deliver: the empty
\* line, a blank line, every word alone, and longer lines that build matrices
\* and operand pairs.
Line_Matrix2x2 == Join(<<"1", "2", "3", "4", "2", "2", "matrix">>)
Line_MulShort == Join(<<"1", "2", "2", "2", "matrix", "3", "*">>)
Line_MulMatrix == Join(<<"1", "2", "1", "2", "matrix", "3", "*">>)
Line_MatrixNumber == Join(<<"1", "2", "1", "2", "matrix", "3">>)
Line_NumberMatrix == Join(<<"3", "1", "2", "1", "2", "matrix">>)
Line_TwoMatrices == Join(<<"1", "2", "1", "2", "matrix", "3", "4", "1", "2", "matrix">>)
Line_Mismatched ==
    Join(<<"1", "2", "3", "4", "2", "2", "matrix", "5", "1", "1", "matrix">>)
Line_MismatchedAdd ==
    Join(<<"1", "2", "3", "4", "2", "2", "matrix", "5", "1", "1", "matrix", "+">>)
Line_MatrixSum ==
    Join(<<"1", "2", "3", "4", "2", "2", "matrix",
           "5", "6", "7", "8", "2", "2", "matrix", "+">>)
Line_MatrixElement ==
    Join(<<"4", "1", "2", "1", "2", "matrix", "3", "1", "3", "matrix">>)
Line_HugeSizes == Join(<<"1", "inf", "inf", "matrix">>)
Line_Three == Join(<<"1", "2", "3">>)
Line_Pair == Join(<<"3", "2">>)
Line_Fractions == Join(<<"-1", "0.5">>)
Line_EmptyMatrix == Join(<<"1", "0", "2", "matrix">>)
Line_Untracked == Join(<<"1", "sin", "pi", "matrix">>)
Line_Spaced == <<Blank, "4", Blank, Blank, "1", Blank>>

LongLines ==
    {Line_Matrix2x2, Line_MulShort, Line_MulMatrix, Line_MatrixNumber,
     Line_NumberMatrix, Line_TwoMatrices, Line_Mismatched, Line_MismatchedAdd,
     Line_MatrixSum, Line_MatrixElement,
     Line_HugeSizes, Line_Three, Line_Pair, Line_Fractions, Line_EmptyMatrix,
     Line_Untracked, Line_Spaced}

Lines == {<<>>, <<Blank>>} \cup {<<w>> : w \in Words} \cup LongLines

\* ------------------------------------------------------------------ state
VARIABLES
    pc,               \* where the process is: main, readline, exec, exited, panicked
    args,             \* the parsed command line, until main has dispatched on it
    overflow_checks,  \* whether the build panics on integer overflow
    mode,             \* the branch main took: interactive or expression
    stack,            \* the Vec<Value> of the session
    line,             \* the line being evaluated
    pos,              \* number of tokens of the line already evaluated
    panic,            \* the panic that ended the process, if any
    out,              \* what the latest token evaluated wrote to standard output
    history,          \* the lines recorded by add_history_entry
    snap              \* the stack as it was when each recorded line was read

vars == <<pc, args, overflow_checks, mode, stack, line, pos, panic, out, history, snap>>

NoString == <<"--no-string--">>
NoArgs == [interactive |-> FALSE, string |-> NoString, filename |-> FALSE]

Args == [interactive : BOOLEAN, string : {NoString} \cup Lines, filename : BOOLEAN]

Init ==
    /\ pc = "main"
    /\ args \in Args
    /\ overflow_checks \in BOOLEAN
    /\ mode = "none"
    /\ stack = <<>>
    /\ line = <<>>
    /\ pos = 0
    /\ panic = NoPanic
    /\ out = <<>>
    /\ history = <<>>
    /\ snap = <<>>

\* interactive() up to the loop: a new editor and a new, empty stack
interactive ==
    /\ pc' = "readline"
    /\ mode' = "interactive"
    /\ stack' = <<>>
    /\ UNCHANGED <<line, pos>>

\* exec_expression up to the loop of exec: a new, empty stack
exec_expression(expr) ==
    /\ pc' = "exec"
    /\ mode' = "expression"
    /\ stack' = <<>>
    /\ line' = expr
    /\ pos' = 0

\* Mutation: the expression string is looked at before the flag.
main_string_first ==
    /\ pc = "main"
    /\ IF args.string # NoString THEN exec_expression(args.string)
       ELSE interactive
    /\ args' = NoArgs
    /\ UNCHANGED <<overflow_checks, panic, out, history, snap>>

\* main reads the parsed command line once, to choose its branch; nothing
\* reads it afterwards, and it is cleared here.
main ==
    /\ pc = "main"
    /\ IF args.interactive THEN interactive
       ELSE IF args.string # NoString THEN exec_expression(args.string)
       ELSE interactive
    /\ args' = NoArgs
    /\ UNCHANGED <<overflow_checks, panic, out, history, snap>>

\* Mutation: every line starts from a new stack.
SessionStack_fresh(st) == <<>>

\* The stack the loop of interactive() hands to exec for the next line.
SessionStack(st) == st

\* Mutation: the line is recorded and dropped; the next line is read.
ReadLine_skipping ==
    /\ pc = "readline"
    /\ Len(history) < MaxLines
    /\ \E line_string \in Lines :
          /\ history' = Append(history, line_string)
          /\ snap' = Append(snap, stack)
          /\ line' = line_string
    /\ stack' = SessionStack(stack)
    /\ pos' = Len(split_whitespace(line'))
    /\ pc' = "readline"
    /\ UNCHANGED <<args, overflow_checks, mode, panic, out>>

\* rl.readline returned a line: it is recorded, then handed to exec.  The
\* session ends after MaxLines lines (ReadError is then the only step).
ReadLine ==
    /\ pc = "readline"
    /\ Len(history) < MaxLines
    /\ \E line_string \in Lines :
          /\ history' = Append(history, line_string)
          /\ snap' = Append(snap, stack)
          /\ line' = line_string
    /\ stack' = SessionStack(stack)
    /\ pos' = 0
    /\ pc' = "exec"
    /\ UNCHANGED <<args, overflow_checks, mode, panic, out>>

\* rl.readline returned an error (end of input included): the loop breaks,
\* interactive returns Ok(true) and main returns.
ReadError ==
    /\ pc = "readline"
    /\ pc' = "exited"
    /\ UNCHANGED <<args, overflow_checks, mode, stack, line, pos, panic, out, history, snap>>

Tokens == split_whitespace(line)

\* Mutation: a failed token is reported and the loop goes on.
AfterToken_isolating(p) == "exec"

\* Where the process goes after a token: a panic ends it.
AfterToken(p) == IF p # NoPanic THEN "panicked" ELSE "exec"

\* The result o of evaluating the next token takes effect.
Apply(o) ==
    /\ stack' = o.stack
    /\ panic' = o.panic
    /\ out' = o.out
    /\ pos' = pos + 1
    /\ pc' = AfterToken(o.panic)
    /\ UNCHANGED <<args, overflow_checks, mode, line, history, snap>>

AtToken == pc = "exec" /\ pos < Len(Tokens)
Tok == Tokens[pos + 1]

\* exec: the token parses as a number, which is pushed.
PushNumber ==
    /\ AtToken
    /\ ParseF64(Tok).ok
    /\ \E o \in EvalToken(stack, Tok, overflow_checks) : Apply(o)

\* exec_identifier on the current token, which did not parse as a number.
Dispatch ==
    /\ ~ParseF64(Tok).ok
    /\ \E o \in EvalToken(stack, Tok, overflow_checks) : Apply(o)

\* One action for each entry of HANDLERS.
Call_pi == AtToken /\ Tok = "pi" /\ Dispatch
Call_matrix == AtToken /\ Tok = "matrix" /\ Dispatch
Call_plus == AtToken /\ Tok = "+" /\ Dispatch
Call_sub == AtToken /\ Tok = "-" /\ Dispatch
Call_mul == AtToken /\ Tok = "*" /\ Dispatch
Call_div == AtToken /\ Tok = "/" /\ Dispatch
Call_pow == AtToken /\ Tok = "^" /\ Dispatch
Call_sin == AtToken /\ Tok = "sin" /\ Dispatch
Call_cos == AtToken /\ Tok = "cos" /\ Dispatch
Call_tan == AtToken /\ Tok = "tan" /\ Dispatch
Call_cot == AtToken /\ Tok = "cot" /\ Dispatch
Call_exp == AtToken /\ Tok = "exp" /\ Dispatch
Call_asin == AtToken /\ Tok = "asin" /\ Dispatch
Call_acos == AtToken /\ Tok = "acos" /\ Dispatch
Call_atan == AtToken /\ Tok = "atan" /\ Dispatch
Call_acot == AtToken /\ Tok = "acot" /\ Dispatch
Call_atan2 == AtToken /\ Tok = "atan2" /\ Dispatch
Call_print == AtToken /\ Tok = "p" /\ Dispatch

\* exec_identifier: the token is not a registered name.
Undefined ==
    /\ AtToken
    /\ Tok \notin HANDLERS
    /\ Dispatch

\* exec returns: the session reads the next line, a single expression ends.
EndOfLine ==
    /\ pc = "exec"
    /\ pos = Len(Tokens)
    /\ pc' = IF mode = "interactive" THEN "readline" ELSE "exited"
    /\ UNCHANGED <<args, overflow_checks, mode, stack, line, pos, panic, out, history, snap>>

Next ==
    \/ main
    \/ ReadLine
    \/ ReadError
    \/ PushNumber
    \/ Call_pi
    \/ Call_matrix
    \/ Call_plus
    \/ Call_sub
    \/ Call_mul
    \/ Call_div
    \/ Call_pow
    \/ Call_sin
    \/ Call_cos
    \/ Call_tan
    \/ Call_cot
    \/ Call_exp
    \/ Call_asin
    \/ Call_acos
    \/ Call_atan
    \/ Call_acot
    \/ Call_atan2
    \/ Call_print
    \/ Undefined
    \/ EndOfLine

Spec == Init /\ [][Next]_vars

TypeOK ==
    /\ pc \in {"main", "readline", "exec", "exited", "panicked"}
    /\ mode \in {"none", "interactive", "expression"}
    /\ Len(history) <= MaxLines

\* ================================================================ claims
\* The token `name` is evaluated by this step.
Evaluates(name) == AtToken /\ Tok = name /\ pos' = pos + 1

\* The line l is evaluated from an empty stack: as the --string expression,
\* or as the first line of an interactive session.
FromEmpty(l) ==
    \/ mode = "expression" /\ line = l
    \/ mode = "interactive" /\ history = <<l>> /\ line = l

\* The evaluation of the current line is over.
LineOver == pc = "panicked" \/ (pc \in {"readline", "exited"} /\ pos = Len(Tokens))

\* A number that is a non-negative integer.
IsSize(v) == is_number(v) /\ IsInteger(v.num) /\ (~v.num.neg \/ v.num.n = 0)

\* The top two values are the sizes r and c, and r*c numbers lie below them.
MatrixInput(st) ==
    /\ Len(st) >= 2
    /\ IsSize(st[Len(st)])
    /\ IsSize(st[Len(st) - 1])
    /\ LET n == st[Len(st) - 1].num.n * st[Len(st)].num.n
       IN  /\ Len(st) >= 2 + n
           /\ \A i \in (Len(st) - 1 - n) .. (Len(st) - 2) : is_number(st[i])

\* The stack `matrix` must leave on MatrixInput(st).
MatrixOutput(st) ==
    LET r == st[Len(st) - 1].num.n
        c == st[Len(st)].num.n
        n == r * c
        base == Len(st) - 2 - n
    IN  Append(SubSeq(st, 1, base),
               MatrixValue([row |-> r, col |-> c,
                            data |-> [i \in 1 .. n |-> st[base + i].num]]))

Matrix1234 ==
    MatrixValue([row |-> 2, col |-> 2,
                 data |-> <<Int2F(1), Int2F(2), Int2F(3), Int2F(4)>>])

\* C1: on any stack S followed by r*c numbers and the non-negative integer
\* sizes r and c, `matrix` succeeds and leaves S followed by one r x c Matrix
\* holding the numbers in push order; `1 2 3 4 2 2 matrix` from an empty
\* stack ends with the single Matrix [[1,2],[3,4]].
C1_MatrixBuilds ==
    /\ [][Evaluates("matrix") /\ MatrixInput(stack)
            => panic' = NoPanic /\ pc' = "exec" /\ stack' = MatrixOutput(stack)]_vars
    /\ [](FromEmpty(Line_Matrix2x2) /\ LineOver
            => panic = NoPanic /\ stack = <<Matrix1234>>)

C1_Witness ==
    /\ FromEmpty(Line_Matrix2x2)
    /\ LineOver
    /\ stack = <<Matrix1234>>

\* C2 as stated: `1 2 2 2 matrix 3 *` from an empty stack fails with
\* UnsupportedOperation, raised by `*`.
C2_Original ==
    FromEmpty(Line_MulShort) /\ LineOver
        => panic.kind = "UnsupportedOperation" /\ Tokens[pos] = "*"

\* C2 as amended: `1 2 2 2 matrix 3 *` from an empty stack fails with
\* StackUnderflow, raised by `matrix` (two numbers lie below the sizes, four
\* are needed), and `*` is not reached; `1 2 1 2 matrix 3 *`, where `*` meets
\* a Matrix and a Number, fails with UnsupportedOperation raised by `*`.
C2_Amended ==
    /\ FromEmpty(Line_MulShort) /\ LineOver
          => panic = StackUnderflow /\ Tokens[pos] = "matrix" /\ pc = "panicked"
    /\ FromEmpty(Line_MulMatrix) /\ LineOver
          => panic.kind = "UnsupportedOperation" /\ Tokens[pos] = "*" /\ pc = "panicked"

C2_Witness ==
    /\ FromEmpty(Line_MulShort)
    /\ pc = "panicked"
    /\ panic = StackUnderflow
    /\ Tokens[pos] = "matrix"

\* rows*cols = data.length, for the sizes the representatives stand for.
WellFormed(mat) ==
    IF mat.row >= 0 /\ mat.col >= 0 THEN Len(mat.data) = mat.row * mat.col
    ELSE (mat.row = 0 \/ mat.col = 0) /\ Len(mat.data) = 0

\* C3: while no evaluation has failed, every Matrix on the stack holds
\* exactly rows*cols elements.
C3_DataLength ==
    panic = NoPanic =>
        \A i \in 1 .. Len(stack) : is_matrix(stack[i]) => WellFormed(stack[i].mat)

BinaryOperators == {"+", "-", "*", "/", "^", "atan2"}
UnaryFunctions == {"sin", "cos", "tan", "cot", "exp", "asin", "acos", "atan", "acot"}

\* A fixed-arity operator is evaluated by this step on too short a stack.
Underflows ==
    /\ AtToken
    /\ pos' = pos + 1
    /\ \/ Tok \in BinaryOperators /\ Len(stack) < 2
       \/ Tok \in UnaryFunctions /\ Len(stack) < 1

\* C4: a binary operator on fewer than two values and a unary function on
\* none fail with StackUnderflow; nothing is pushed and the step is not a
\* no-op.
C4_Underflow ==
    [][Underflows => /\ panic' = StackUnderflow
                     /\ pc' = "panicked"
                     /\ stack' = <<>>]_vars

C4_Witness ==
    /\ mode = "interactive"
    /\ history = << <<"1">>, <<"+">> >>
    /\ panic = StackUnderflow
    /\ stack = <<>>

\* The 18 names the claim lists as registered.
C5_Registered ==
    {"pi", "matrix", "+", "-", "*", "/", "^", "sin", "cos", "tan", "cot", "exp",
     "asin", "acos", "atan", "acot", "atan2", "p"}

\* C5: a token that is neither a number nor one of the 18 registered names
\* fails with UndefinedOperator naming the token and leaves the stack as it
\* was; `foo` and `exp2` are such tokens.
C5_UndefinedOperator ==
    [][AtToken /\ pos' = pos + 1 /\ ~ParseF64(Tok).ok /\ Tok \notin C5_Registered
          => /\ panic' = UndefinedOperator(Tok)
             /\ pc' = "panicked"
             /\ stack' = stack]_vars

C5_Witness ==
    /\ pc = "panicked"
    /\ panic = UndefinedOperator("exp2")
    /\ stack # <<>>

\* An operator is evaluated by this step on enough operands, of which one
\* has the wrong variant; Arity is the number of operands it pops.
Arity(tok) == IF tok \in UnaryFunctions THEN 1 ELSE 2

WrongVariant ==
    /\ AtToken
    /\ pos' = pos + 1
    /\ Len(stack) >= Arity(Tok)
    /\ \/ /\ Tok \in {"*", "/", "^", "atan2"}
          /\ (is_matrix(stack[Len(stack)]) \/ is_matrix(stack[Len(stack) - 1]))
       \/ /\ Tok \in {"+", "-"}
          /\ is_matrix(stack[Len(stack)]) # is_matrix(stack[Len(stack) - 1])
       \/ /\ Tok \in UnaryFunctions
          /\ is_matrix(stack[Len(stack)])

\* C6: with enough operands, `* / ^ atan2` on at least one Matrix, `+ -` on
\* exactly one Matrix and a unary function on a Matrix fail with
\* UnsupportedOperation and push no result.
C6_Unsupported ==
    [][WrongVariant
          => /\ panic'.kind = "UnsupportedOperation"
             /\ pc' = "panicked"
             /\ stack' = SubSeq(stack, 1, Len(stack) - Arity(Tok))]_vars

C6_Witness ==
    /\ mode = "interactive"
    /\ history = <<Line_TwoMatrices, <<"*">> >>
    /\ panic.kind = "UnsupportedOperation"
    /\ stack = <<>>

\* C7: once an evaluation has failed the process is over: no token and no
\* line is evaluated afterwards and the stack does not change, in
\* interactive mode as in single-expression mode.
C7_Fatal ==
    /\ [][panic # NoPanic => UNCHANGED <<stack, line, pos, history, panic, pc>>]_vars
    /\ [](panic # NoPanic => pc = "panicked")

C7_Witness ==
    /\ mode = "interactive"
    /\ pc = "panicked"
    /\ pos < Len(Tokens)
    /\ Len(history) < MaxLines

C9_PrintKeepsStack ==
    [][Evaluates("p") => stack' = stack /\ panic' = NoPanic]_vars

\* C10: on a stack of N values `p` writes N entries, from the top of the
\* stack to the bottom, and the entry of the i-th value from the top (from 0)
\* carries the index -(i+1).
C10_PrintIndices ==
    [][Evaluates("p")
          => /\ Len(out') = Len(stack)
             /\ \A i \in 0 .. Len(stack) - 1 :
                   /\ out'[i + 1].index = 0 - (i + 1)
                   /\ out'[i + 1].text = DisplayValue(stack[Len(stack) - i])]_vars

\* This step evaluates a token without failing.
Succeeds == AtToken /\ pos' = pos + 1 /\ panic' = NoPanic

\* This step replaces the top k values by one value; the values below keep
\* their value and position.
ReplacesTop(k) ==
    /\ Len(stack) >= k
    /\ Len(stack') = Len(stack) - k + 1
    /\ SubSeq(stack', 1, Len(stack) - k) = SubSeq(stack, 1, Len(stack) - k)

\* This step of `matrix` replaces the two sizes and the row*col values below
\* them by one Matrix of these sizes.  A product beyond usize::MAX is more
\* than any stack holds.
ReplacesByMatrix ==
    /\ Len(stack) >= 2
    /\ stack' # <<>>
    /\ is_matrix(Top(stack'))
    /\ is_number(Top(stack))
    /\ is_number(Top(Pop(stack)))
    /\ LET mat == Top(stack').mat
       IN  /\ mat.row \in AsUsize(Top(Pop(stack)).num)
           /\ mat.col \in AsUsize(Top(stack).num)
           /\ ~MulOverflows(mat.row, mat.col)
           /\ ReplacesTop(2 + mat.row * mat.col)

\* C11: a successful step changes the stack at its top only, by the arity of
\* its token: a literal and `pi` append one Number, a unary function replaces
\* the top value by one Number, a binary operator replaces the top two values
\* by one value, `matrix` replaces the top 2 + row*col values by one Matrix,
\* and `p` changes nothing.
C11_Arity ==
    [][Succeeds =>
          CASE ParseF64(Tok).ok \/ Tok = "pi" ->
                   ReplacesTop(0) /\ is_number(Top(stack'))
            [] Tok \in UnaryFunctions ->
                   ReplacesTop(1) /\ is_number(Top(stack'))
            [] Tok \in BinaryOperators -> ReplacesTop(2)
            [] Tok = "matrix" -> ReplacesByMatrix
            [] Tok = "p" -> stack' = stack
            [] OTHER -> FALSE]_vars

\* x multiplied by itself k times; 1 for k = 0.
RECURSIVE IntPow(_, _)
IntPow(x, k) == IF k = 0 THEN 1 ELSE x * IntPow(x, k - 1)

\* The finite number r is exactly a - b, a / b, a ^ b, a + b or a * b for the
\* finite numbers a and b, as an equation between integers.
ExactResult(op, a, b, r) ==
    CASE op = "-" -> Signed(r) * a.d * b.d = (Signed(a) * b.d - Signed(b) * a.d) * r.d
      [] op = "+" -> Signed(r) * a.d * b.d = (Signed(a) * b.d + Signed(b) * a.d) * r.d
      [] op = "*" -> Signed(r) * a.d * b.d = Signed(a) * Signed(b) * r.d
      [] op = "/" -> b.n # 0 /\ Signed(r) * a.d * Signed(b) = Signed(a) * b.d * r.d
      [] op = "^" ->
            IF ~IsInteger(b) THEN TRUE
            ELSE IF b.neg THEN Signed(r) * IntPow(Signed(a), b.n) = r.d * IntPow(a.d, b.n)
            ELSE Signed(r) * IntPow(a.d, b.n) = IntPow(Signed(a), b.n) * r.d

\* The session read the line `3 2` and then the line holding op alone.
PairThen(op) == mode = "interactive" /\ history = <<Line_Pair, <<op>> >> /\ LineOver

\* C12: on the Numbers a (below) and b (top) each of `- / ^ + *` succeeds and
\* replaces both by the single Number a op b, a being the left operand; after
\* `3 2` the operators leave 1, 1.5, 9, 5 and 6.
C12_OperandOrder ==
    /\ [][/\ AtToken
          /\ pos' = pos + 1
          /\ Tok \in {"-", "/", "^", "+", "*"}
          /\ Len(stack) >= 2
          /\ is_number(Top(stack))
          /\ is_number(Top(Pop(stack)))
          => /\ panic' = NoPanic
             /\ ReplacesTop(2)
             /\ is_number(Top(stack'))
             /\ (IsFin(Top(Pop(stack)).num) /\ IsFin(Top(stack).num)
                    /\ IsFin(Top(stack').num)
                 => ExactResult(Tok, Top(Pop(stack)).num, Top(stack).num,
                                Top(stack').num))]_vars
    /\ [](PairThen("-") => stack = <<Number(Int2F(1))>>)
    /\ [](PairThen("/") => stack = <<Number(Fin(FALSE, 3, 2))>>)
    /\ [](PairThen("^") => stack = <<Number(Int2F(9))>>)
    /\ [](PairThen("+") => stack = <<Number(Int2F(5))>>)
    /\ [](PairThen("*") => stack = <<Number(Int2F(6))>>)

C12_Witness == PairThen("/") /\ stack = <<Number(Fin(FALSE, 3, 2))>>

\* Both operands of this step of `+` or `-` are Matrices: A below B.
OnMatrices(ops) ==
    /\ AtToken
    /\ pos' = pos + 1
    /\ Tok \in ops
    /\ Len(stack) >= 2
    /\ is_matrix(Top(stack))
    /\ is_matrix(Top(Pop(stack)))

\* Element i of the data r is A[i] op B[i], wherever the three are exactly
\* tracked.
Elementwise(op, A, B, r, len) ==
    \A i \in 1 .. len :
        IsFin(A[i]) /\ IsFin(B[i]) /\ IsFin(r[i]) => ExactResult(op, A[i], B[i], r[i])

Matrix5678 ==
    MatrixValue([row |-> 2, col |-> 2,
                 data |-> <<Int2F(5), Int2F(6), Int2F(7), Int2F(8)>>])

MatrixSum ==
    MatrixValue([row |-> 2, col |-> 2,
                 data |-> <<Int2F(6), Int2F(8), Int2F(10), Int2F(12)>>])

TooShort(st_len, row, col) ==
    \/ MulOverflows(row, col)
    \/ row * col < 0
    \/ st_len < 2 + row * col

\* This step evaluates `matrix` on a stack of Numbers that holds the two
\* sizes but fewer than 2 + row*col values.
MatrixOnShortStack ==
    /\ Evaluates("matrix")
    /\ Len(stack) >= 2
    /\ \A i \in 1 .. Len(stack) : is_number(stack[i])
    /\ \A row \in AsUsize(Top(Pop(stack)).num), col \in AsUsize(Top(stack).num) :
          TooShort(Len(stack), row, col)

\* C14: `matrix` on a stack of Numbers that holds fewer than 2 + row*col
\* values, row and col being the truncations of the second and of the top
\* value, fails with StackUnderflow and pushes no Matrix.
C14_MatrixUnderflow ==
    [][MatrixOnShortStack
          => /\ panic' = StackUnderflow
             /\ pc' = "panicked"
             /\ \A i \in 1 .. Len(stack') : is_number(stack'[i])]_vars

\* This step evaluates `matrix` and one of the two sizes is a Matrix.
MatrixAsSize ==
    /\ Evaluates("matrix")
    /\ Len(stack) >= 2
    /\ (is_matrix(Top(stack)) \/ is_matrix(Top(Pop(stack))))

\* This step evaluates `matrix`; the sizes are Numbers of which row and col
\* are the only truncations, the stack holds 2 + row*col values and one of
\* the row*col values below the sizes is a Matrix.
MatrixAsElement ==
    /\ Evaluates("matrix")
    /\ Len(stack) >= 2
    /\ is_number(Top(stack))
    /\ is_number(Top(Pop(stack)))
    /\ \E row \in AsUsize(Top(Pop(stack)).num), col \in AsUsize(Top(stack).num) :
          /\ AsUsize(Top(Pop(stack)).num) = {row}
          /\ AsUsize(Top(stack).num) = {col}
          /\ ~TooShort(Len(stack), row, col)
          /\ \E i \in (Len(stack) - 1 - row * col) .. (Len(stack) - 2) :
                is_matrix(stack[i])

\* This step pushes nothing: it leaves a shorter stack whose values are the
\* values that stood at these positions.
OnlyPops ==
    /\ Len(stack') < Len(stack)
    /\ stack' = SubSeq(stack, 1, Len(stack'))

\* C15: `matrix` fails with the TypeError "Matrix size must be numbers" when
\* one of the top two values is a Matrix, and with the TypeError "Matrix
\* elements must be numbers" when the sizes are Numbers, the stack holds
\* 2 + row*col values and one of the row*col values below the sizes is a
\* Matrix; no Matrix is pushed.
C15_MatrixTypeError ==
    /\ [][MatrixAsSize
             => /\ panic' = TypeError("Matrix size must be numbers")
                /\ pc' = "panicked"
                /\ OnlyPops]_vars
    /\ [][MatrixAsElement
             => /\ panic' = TypeError("Matrix elements must be numbers")
                /\ pc' = "panicked"
                /\ OnlyPops]_vars

C15_Witness ==
    /\ FromEmpty(Line_MatrixElement)
    /\ pc = "panicked"
    /\ Tokens[pos] = "matrix"
    /\ pos = Len(Tokens)
    /\ panic = TypeError("Matrix elements must be numbers")

\* The usize of representative n is at least 1.
Positive(n) == n # 0

\* C16: every Matrix on the stack has at least one row and at least one
\* column, whatever sizes were given to `matrix`.
C16_PositiveDimensions ==
    \A i \in 1 .. Len(stack) :
        is_matrix(stack[i]) => Positive(stack[i].mat.row) /\ Positive(stack[i].mat.col)

\* The Matrix `1 2 3 4 2 2 matrix 5 1 1 matrix +` leaves: the dimensions of
\* [[1,2],[3,4]] and the single element 1 + 5.
MatrixTruncated ==
    MatrixValue([row |-> 2, col |-> 2, data |-> <<Int2F(6)>>])

\* C17: on two Matrices A (below) and B (top) of different dimensions `+` and
\* `-` raise no error; they replace both by one Matrix that carries the rows
\* and cols of A and holds min(len(A.data), len(B.data)) elements, element i
\* being A[i] + B[i], respectively A[i] - B[i].
C17_Mismatch ==
    /\ [][/\ OnMatrices({"+", "-"})
          /\ \/ Top(stack).mat.row # Top(Pop(stack)).mat.row
             \/ Top(stack).mat.col # Top(Pop(stack)).mat.col
          => /\ panic' = NoPanic
             /\ pc' = "exec"
             /\ ReplacesTop(2)
             /\ is_matrix(Top(stack'))
             /\ LET A == Top(Pop(stack)).mat
                    B == Top(stack).mat
                    R == Top(stack').mat
                    shorter == IF Len(B.data) < Len(A.data)
                               THEN Len(B.data) ELSE Len(A.data)
                IN  /\ R.row = A.row
                    /\ R.col = A.col
                    /\ Len(R.data) = shorter
                    /\ Elementwise(Tok, A.data, B.data, R.data, shorter)]_vars
    /\ [](FromEmpty(Line_MismatchedAdd) /\ LineOver
             => panic = NoPanic /\ stack = <<MatrixTruncated>>)

C17_Witness ==
    /\ FromEmpty(Line_MismatchedAdd)
    /\ LineOver
    /\ stack = <<MatrixTruncated>>

\* The line under evaluation is the line recorded last.
LastRecorded == history # <<>> /\ line = history[Len(history)]

\* C18: the interactive session creates one empty stack when it starts; it
\* records each line it reads and then evaluates it, token by token from the
\* first, on the stack the lines before left, before it reads the next line;
\* the stack changes only by the evaluation of a token; at the first end of
\* input or read error the session ends without a failure, with the stack as
\* it was, and nothing is evaluated afterwards.
C18_Session ==
    /\ [][mode # "interactive" /\ mode' = "interactive"
             => stack' = <<>> /\ history' = <<>> /\ pc' = "readline"]_vars
    /\ [][history' # history
             => /\ pc = "readline"
                /\ history' = Append(history, line')
                /\ pc' = "exec"
                /\ pos' = 0
                /\ stack' = stack]_vars
    /\ [](mode = "interactive" /\ pc = "exec" => LastRecorded)
    /\ [](mode = "interactive" /\ pc \in {"readline", "exited"} /\ history # <<>>
             => LastRecorded /\ pos = Len(Tokens) /\ panic = NoPanic)
    /\ [][mode = "interactive" /\ stack' # stack => AtToken /\ pos' = pos + 1]_vars
    /\ [][pc = "readline" /\ history' = history
             => /\ pc' = "exited"
                /\ panic' = NoPanic
                /\ UNCHANGED <<stack, line, pos, out, mode>>]_vars
    /\ [][pc # "exited"]_vars

C18_Witness ==
    /\ mode = "interactive"
    /\ pc = "exited"
    /\ history = <<Line_Three, <<"*">> >>
    /\ stack = <<Number(Int2F(1)), Number(Int2F(6))>>

\* This step starts the interactive session.
StartsSession == mode' = "interactive" /\ pc' = "readline" /\ stack' = <<>>

\* This step starts the evaluation of the expression string on a new, empty
\* stack.
StartsExpression ==
    /\ mode' = "expression"
    /\ pc' = "exec"
    /\ stack' = <<>>
    /\ line' = args.string
    /\ pos' = 0

\* C19: main starts the interactive session when the interactive flag is set,
\* with or without an expression string, and when neither is supplied; it
\* evaluates the expression string, from a new empty stack, exactly when the
\* string is supplied without the flag, and evaluates it once: its tokens in
\* order, then the process exits and reads no line; a filename changes
\* nothing, and alone it leads to the interactive session.
C19_ModeSelection ==
    /\ [][pc = "main" /\ args.interactive => StartsSession]_vars
    /\ [][pc = "main" /\ ~args.interactive /\ args.string = NoString
             => StartsSession]_vars
    /\ [][pc = "main" /\ ~args.interactive /\ args.string # NoString
             => StartsExpression]_vars
    /\ [][mode # "expression" /\ mode' = "expression"
             => pc = "main" /\ ~args.interactive /\ args.string # NoString]_vars
    /\ [][pc = "main" /\ args.filename /\ ~args.interactive /\ args.string = NoString
             => StartsSession /\ line' = <<>> /\ history' = <<>>]_vars
    /\ [][mode = "expression"
             => /\ mode' = "expression"
                /\ line' = line
                /\ history' = <<>>
                /\ (pos' # pos => AtToken /\ pos' = pos + 1)
                /\ (pc' = "exited" => pos = Len(Tokens))
                /\ pc' \in {"exec", "exited", "panicked"}]_vars

C19_Witness ==
    /\ mode = "expression"
    /\ pc = "exited"
    /\ line = Line_Matrix2x2
    /\ pos = Len(Tokens)
    /\ history = <<>>
    /\ stack = <<Matrix1234>>

\* The position of the first Matrix the loop of `matrix` meets: the highest
\* Matrix below the two sizes.
Offending(st) ==
    CHOOSE j \in 1 .. Len(st) - 2 :
        /\ is_matrix(st[j])
        /\ \A i \in j + 1 .. Len(st) - 2 : is_number(st[i])

\* C20: when a step fails with UnsupportedOperation or with a TypeError of
\* `matrix`, the operands it popped are gone: a binary operator leaves the
\* stack two shorter, a unary function one shorter, `matrix` with a Matrix as
\* a size two shorter, and `matrix` with a Matrix among the elements shorter
\* by the two sizes and every element down to that Matrix, included; the
\* values below are untouched and the stack stays so after the failure.
C20_PoppedBeforeChecked ==
    /\ [][AtToken /\ pos' = pos + 1 /\ panic'.kind = "UnsupportedOperation"
             => /\ Tok \in BinaryOperators \cup UnaryFunctions
                /\ Tok \in BinaryOperators
                      => Len(stack) >= 2 /\ stack' = SubSeq(stack, 1, Len(stack) - 2)
                /\ Tok \in UnaryFunctions
                      => Len(stack) >= 1 /\ stack' = SubSeq(stack, 1, Len(stack) - 1)]_vars
    /\ [][AtToken /\ pos' = pos + 1 /\ panic'.kind = "TypeError"
             => /\ Tok = "matrix"
                /\ Len(stack) >= 2
                /\ IF is_matrix(Top(stack)) \/ is_matrix(Top(Pop(stack)))
                   THEN stack' = SubSeq(stack, 1, Len(stack) - 2)
                   ELSE /\ \E j \in 1 .. Len(stack) - 2 : is_matrix(stack[j])
                        /\ stack' = SubSeq(stack, 1, Offending(stack) - 1)]_vars
    /\ [](FromEmpty(Line_MatrixElement) /\ LineOver
             => pc = "panicked" /\ stack = <<Number(Int2F(4))>>)
    /\ [](FromEmpty(Line_MulMatrix) /\ LineOver
             => pc = "panicked" /\ stack = <<>>)

C20_Witness ==
    /\ FromEmpty(Line_MatrixElement)
    /\ pc = "panicked"
    /\ panic.kind = "TypeError"
    /\ stack = <<Number(Int2F(4))>>

====
